---- MODULE Spec2Model ----
(***************************************************************************)
(* MassageBe: the REST backend of src/server.js over the PostgreSQL schema *)
(* shipped with it (src/server.js lines 557-618, src/config/database.js    *)
(* lines 39-272).                                                          *)
(*                                                                         *)
(* State: the three tables, their SERIAL sequences, and a bounded pool of  *)
(* request slots.  Every `await pool.query(...)` of a handler is one       *)
(* action: the statement runs atomically in the store and the handler's    *)
(* synchronous continuation (up to the next await or the response) is part *)
(* of the same action.  Requests interleave between their awaits.          *)
(*                                                                         *)
(* Nullable columns and absent JSON fields are sets of at most one value:  *)
(* {} is NULL/undefined, {v} is the value v.  Strings that the code takes  *)
(* apart (e-mail addresses, names) are sequences of characters.            *)
(* Timestamps written with NOW() (created_at, updated_at) are not          *)
(* modelled.                                                               *)
(***************************************************************************)
EXTENDS Integers, Sequences, FiniteSets, TLC

VARIABLES
    schema,            \* which of the two shipped schema files was deployed
    users,             \* TABLE users
    massage_sessions,  \* TABLE massage_sessions
    preferences,       \* TABLE preferences
    users_seq,         \* last value of users.user_id SERIAL
    sessions_seq,      \* last value of massage_sessions.session_id SERIAL
    preferences_seq,   \* last value of preferences.preference_id SERIAL
    reqs,              \* request slots: the requests in flight and their responses
    started,           \* number of requests started so far
    idOwner,           \* history: idOwner[i] = subject user_id i was issued to ("" if the insert failed)
    lastResolved,      \* history: user_id last returned to a subject by a resolution since its last deletion
    deletedOk,         \* history: subject's last DELETE /auth/account succeeded and no User row was inserted since
    lastPrefs,         \* history: the preferences last returned to a subject by GET /preferences since the last write to them
    lastPut            \* history: the body of the subject's last PUT /preferences answered 200, no write to its preferences since

vars == <<schema, users, massage_sessions, preferences, users_seq, sessions_seq,
          preferences_seq, reqs, started, idOwner, lastResolved, deletedOk, lastPrefs,
          lastPut>>

store == <<users, massage_sessions, preferences>>

----------------------------------------------------------------------------
(* Bounds of the model *)

MaxSlots == 2
MaxRequests == 3
MaxSessions == 3

Slots == 1..MaxSlots

----------------------------------------------------------------------------
(* Inputs *)

Subjects == {"uid_1", "uid_2"}

EmailA == <<"a", "@", "x">>

EmailB == <<"b", "o", "@", "y">>

Emails == {EmailA, EmailB}

\* Why admin.auth().verifyIdToken rejects a token.
Causes == {"expired", "malformed", "revoked", "unreachable"}

\* A token is what verifyIdToken makes of it: accepted with a uid and an
\* e-mail address, or rejected for a cause.
Token(st, uid, email) == [st |-> st, uid |-> uid, email |-> email]

NoToken == Token("none", "", << >>)

InvalidTokens == {Token(c, "uid_1", EmailA) : c \in Causes}

\* Scenario "identity": two subjects, two of their tokens carrying the same
\* e-mail address, and one rejected token.  Scenario "auth": every way a
\* request can fail authentication, and one accepted token.  Scenario
\* "sessions": session creation and paginated listing by two subjects.
TokensOf(scen) ==
    IF scen = "auth"
    THEN InvalidTokens \cup {Token("valid", "uid_1", EmailA)}
    ELSE IF scen = "sessions"
    THEN {Token("valid", "uid_1", EmailA), Token("valid", "uid_2", EmailB)}
    ELSE {Token("valid", "uid_1", EmailA), Token("valid", "uid_2", EmailA),
          Token("valid", "uid_2", EmailB), Token("expired", "uid_1", EmailA)}

\* The Authorization header: absent, another scheme, or "Bearer <token>".
Header(scheme, tok) == [scheme |-> scheme, tok |-> tok]

NoHeader == Header("none", NoToken)

ProtectedKinds ==
    {"register", "me", "profile", "delete", "postSession", "getSessions", "getPrefs", "putPrefs"}

ResolutionKinds == {"register", "verify"}

Kinds == ProtectedKinds \cup {"verify"}

\* The routes a scenario calls.
KindsOf(scen) ==
    IF scen = "sessions" THEN {"postSession", "getSessions", "getStatistics"} ELSE Kinds

\* verify-firebase reads its token from the body, not from the header.
HeadersOf(scen, kind) ==
    IF kind = "verify" THEN {NoHeader}
    ELSE IF scen = "auth"
         THEN {NoHeader, Header("basic", NoToken)} \cup {Header("bearer", t) : t \in TokensOf(scen)}
    ELSE IF scen = "sessions" THEN {Header("bearer", t) : t \in TokensOf(scen)}
         ELSE {NoHeader} \cup {Header("bearer", t) : t \in {x \in TokensOf(scen) : x.st = "valid"}}

NoBody == [none |-> TRUE]

\* req.body of firebase-register and of PUT /auth/profile: absent fields are {}.
ProfileBodies ==
    { [name |-> {<<"z">>}, age |-> {30}, weight |-> {70}, height |-> {175}, gender |-> {"female"}],
      [name |-> {}, age |-> {}, weight |-> {}, height |-> {}, gender |-> {}] }

\* req.body of POST /sessions; timestamps are minutes.
SessionBodies ==
    { [level |-> 3, duration |-> 15, heatEnabled |-> TRUE, rotateEnabled |-> FALSE,
       caloriesBurned |-> 50, notes |-> {}, startedAt |-> 10, endedAt |-> 25],
      [level |-> 0, duration |-> 15, heatEnabled |-> FALSE, rotateEnabled |-> FALSE,
       caloriesBurned |-> 50, notes |-> {}, startedAt |-> 30, endedAt |-> 30] }

\* req.body of PUT /preferences: any of the seven fields may be absent.
PreferenceBodies ==
    { [favoriteLevel |-> {}, defaultDuration |-> {}, enableHeatByDefault |-> {},
       enableNotifications |-> {}, notificationTime |-> {}, theme |-> {"dark"}, language |-> {}],
      [favoriteLevel |-> {5}, defaultDuration |-> {20}, enableHeatByDefault |-> {TRUE},
       enableNotifications |-> {FALSE}, notificationTime |-> {<<7, 30>>}, theme |-> {"auto"},
       language |-> {"en"}] }

\* The bodies a scenario sends: scenario "auth" sends one body per route.
BodiesOf(scen, kind) ==
    LET some == CASE kind \in {"register", "profile"} -> ProfileBodies
                  [] kind = "verify" -> {[firebaseToken |-> t] : t \in TokensOf(scen)}
                  [] kind = "postSession" -> SessionBodies
                  [] kind = "putPrefs" -> PreferenceBodies
                  [] OTHER -> {NoBody}
    IN IF scen = "auth" /\ kind # "verify" THEN {CHOOSE b \in some : TRUE} ELSE some

\* req.query: limit and offset of GET /sessions, days of GET
\* /sessions/statistics, each absent or a number.
NoQuery == [limit |-> {}, offset |-> {}, days |-> {}]

SessionQueries == [limit : {{}, {0}, {1}, {2}}, offset : {{}, {1}, {2}}, days : {{}}]

StatisticsQueries == [limit : {{}}, offset : {{}}, days : {{}, {1}}]

QueriesOf(scen, kind) ==
    IF scen = "sessions" /\ kind = "getSessions" THEN SessionQueries
    ELSE IF scen = "sessions" /\ kind = "getStatistics" THEN StatisticsQueries
    ELSE {NoQuery}

\* NOW() of the store when a statistics query runs, in minutes: shortly
\* after the sessions of the model, or weeks after them.
ClocksOf(kind) == IF kind = "getStatistics" THEN {1470, 50000} ELSE {0}

----------------------------------------------------------------------------
(* Pure helpers *)

\* parseInt(x) || d: d when the parameter is absent and when it parses to 0.
ParseIntOr(x, d) ==
    IF x = {} THEN d
    ELSE LET v == CHOOSE v \in x : TRUE IN IF v = 0 THEN d ELSE v

DefaultLimit == 50

DefaultOffset == 0

DefaultDays == 30

\* email.split("@")[0]: the characters before the first "@" (all of them if none).
RECURSIVE LocalPart(_)
LocalPart(s) ==
    IF s = << >> \/ Head(s) = "@" THEN << >> ELSE <<Head(s)>> \o LocalPart(Tail(s))

\* gender || "male"
GenderOrMale(g) == IF g = {} THEN {"male"} ELSE g

----------------------------------------------------------------------------
(* The store: constraints of the deployed schema *)

Schemas == {"server_js", "database_js"}

\* CHECK constraints of users in src/config/database.js (server.js declares none).
UsersChecks(row) ==
    /\ \A a \in row.age : a >= 0 /\ a <= 150
    /\ \A w \in row.weight : w >= 0
    /\ \A h \in row.height : h >= 0
    /\ \A g \in row.gender : g \in {"male", "female", "other"}

\* Mutant: the users table without its unique index on firebase_uid.
UsersInsertError_NoUidIndex(row) ==
    IF schema = "server_js" /\ row.name = {} THEN "null value in column name"
    ELSE IF schema = "database_js" /\ ~UsersChecks(row) THEN "users check violated"
    ELSE IF \E u \in users : u.email = row.email THEN "duplicate key users_email_key"
    ELSE ""

\* The error an INSERT INTO users of `row` raises, "" if none.  NOT NULL and
\* CHECK constraints are evaluated before the unique indexes, and the index
\* on firebase_uid was created before the one on email.
UsersInsertError(row) ==
    IF schema = "server_js" /\ row.name = {} THEN "null value in column name"
    ELSE IF schema = "database_js" /\ ~UsersChecks(row) THEN "users check violated"
    ELSE IF \E u \in users : u.firebase_uid = row.firebase_uid THEN "duplicate key users_firebase_uid_key"
    ELSE IF \E u \in users : u.email = row.email THEN "duplicate key users_email_key"
    ELSE ""

\* Mutant: the WHERE clause is missing.
SelectUserByUid_Any(uid) == users

\* SELECT ... FROM users WHERE firebase_uid = $1
SelectUserByUid(uid) == {u \in users : u.firebase_uid = uid}

\* (SELECT user_id FROM users WHERE firebase_uid = $1)
UserIdsOf(uid) == {u.user_id : u \in SelectUserByUid(uid)}

\* Mutant: the foreign keys do not cascade.
CascadeDelete_None(rows, gone) == rows

\* ON DELETE CASCADE of massage_sessions.user_id and preferences.user_id:
\* the rows left once the users rows `gone` are deleted.
CascadeDelete(rows, gone) == {x \in rows : x.user_id \notin {u.user_id : u \in gone}}

\* Mutant: user_id is a plain INTEGER column, no REFERENCES.
ForeignKeyOk_Unchecked(userId) == TRUE

\* REFERENCES users(user_id): the insert is refused when the user row is gone.
ForeignKeyOk(userId) == \E u \in users : u.user_id = userId

----------------------------------------------------------------------------
(* Requests *)

NoUser == [firebaseUid |-> "", email |-> << >>]

NoResp == [none |-> TRUE]

Idle ==
    [pc |-> "idle", kind |-> "", hdr |-> NoHeader, body |-> NoBody, query |-> NoQuery,
     now |-> 0, user |-> NoUser,
     userId |-> 0, status |-> 0, resp |-> NoResp,
     dbUsed |-> FALSE, prior |-> 0, removed |-> FALSE, seen |-> {}, put |-> {}]

\* The token a request of this kind presents.
TokenOf(kind, hdr, body) == IF kind = "verify" THEN body.firebaseToken ELSE hdr.tok

\* The subject a request acts for: the uid of its token when the token verifies.
SubjectOf(q) ==
    IF q.kind = "" THEN ""
    ELSE LET t == TokenOf(q.kind, q.hdr, q.body) IN
         IF t.st = "valid" /\ (q.kind = "verify" \/ q.hdr.scheme = "bearer") THEN t.uid ELSE ""

\* res.status(st).json(resp): the handler is over.
Respond(q, st, resp) ==
    [q EXCEPT !.pc = "done", !.status = st, !.resp = resp, !.userId = 0]

ErrorBody(msg) == [error |-> msg]

\* The first await of each protected handler.
FirstPc(kind) ==
    CASE kind = "register" -> "register.select"
      [] kind = "me" -> "me.select"
      [] kind = "profile" -> "profile.update"
      [] kind = "delete" -> "delete.sessions"
      [] kind = "postSession" -> "postSession.user"
      [] kind = "getSessions" -> "getSessions.user"
      [] kind = "getStatistics" -> "getStatistics.user"
      [] kind = "getPrefs" -> "getPrefs.user"
      [] kind = "putPrefs" -> "putPrefs.user"

\* History: a deletion step of subject s ends every resolution series of s.
ClearPrior(rs, s) ==
    [x \in Slots |-> IF SubjectOf(rs[x]) = s THEN [rs[x] EXCEPT !.prior = 0] ELSE rs[x]]

\* History: a write to the preferences of subject s ends every series of
\* reads of s.
ClearSeen(rs, s) ==
    [x \in Slots |-> IF SubjectOf(rs[x]) = s THEN [rs[x] EXCEPT !.seen = {}, !.put = {}]
                     ELSE rs[x]]

\* History: GET /preferences answered subject s with the preferences j.
NoteRead(s, j) == lastPrefs' = [lastPrefs EXCEPT ![s] = {j}]

\* History: a resolution that answered 200 with user_id id.
NoteResolved(s, id) == lastResolved' = [lastResolved EXCEPT ![s] = id]

Init ==
    /\ schema \in Schemas
    /\ users = {}
    /\ massage_sessions = {}
    /\ preferences = {}
    /\ users_seq = 0
    /\ sessions_seq = 0
    /\ preferences_seq = 0
    /\ reqs = [r \in Slots |-> Idle]
    /\ started = 0
    /\ idOwner = << >>
    /\ lastResolved = [s \in Subjects |-> 0]
    /\ deletedOk = [s \in Subjects |-> FALSE]
    /\ lastPrefs = [s \in Subjects |-> {}]
    /\ lastPut = [s \in Subjects |-> {}]

\* A client sends a request of scenario `scen`; it takes the lowest slot that
\* is free or holds an answered request.
Start(r, scen) ==
    /\ reqs[r].pc \in {"idle", "done"}
    /\ \A x \in Slots : x < r => reqs[x].pc \notin {"idle", "done"}
    /\ started < MaxRequests
    /\ \E kind \in KindsOf(scen) : \E hdr \in HeadersOf(scen, kind) :
       \E body \in BodiesOf(scen, kind) : \E query \in QueriesOf(scen, kind) :
       \E now \in ClocksOf(kind) :
         LET q == [Idle EXCEPT !.pc = IF kind = "verify" THEN "verify.token" ELSE "verifyToken",
                               !.kind = kind, !.hdr = hdr, !.body = body, !.query = query,
                               !.now = now]
             s == SubjectOf(q)
         IN reqs' = [reqs EXCEPT ![r] =
                        [q EXCEPT !.prior = IF kind \in ResolutionKinds /\ s # ""
                                            THEN lastResolved[s] ELSE 0,
                                  !.seen = IF kind = "getPrefs" /\ s # ""
                                           THEN lastPrefs[s] ELSE {},
                                  !.put = IF kind = "getPrefs" /\ s # ""
                                          THEN lastPut[s] ELSE {}]]
    /\ started' = started + 1
    /\ UNCHANGED <<lastPut, lastPrefs, schema, users, massage_sessions, preferences, users_seq, sessions_seq,
                   preferences_seq, idOwner, lastResolved, deletedOk>>

\* Mutant: the middleware checks the prefix and skips the verification.
HeaderVerifies_SchemeOnly(hdr) == hdr.scheme = "bearer"

\* The header passes the middleware: "Bearer " prefix and a token verifyIdToken accepts.
HeaderVerifies(hdr) == hdr.scheme = "bearer" /\ hdr.tok.st = "valid"

\* Middleware verifyToken.
VerifyToken(r) ==
    LET q == reqs[r] IN
    /\ q.pc = "verifyToken"
    /\ reqs' = [reqs EXCEPT ![r] =
         IF q.hdr.scheme # "bearer" THEN Respond(q, 401, ErrorBody("No token provided"))
         ELSE IF ~HeaderVerifies(q.hdr) THEN Respond(q, 401, ErrorBody("Invalid token"))
         ELSE [q EXCEPT !.user = [firebaseUid |-> q.hdr.tok.uid, email |-> q.hdr.tok.email],
                        !.pc = FirstPc(q.kind)]]
    /\ UNCHANGED <<lastPut, lastPrefs, schema, users, massage_sessions, preferences, users_seq, sessions_seq,
                   preferences_seq, started, idOwner, lastResolved, deletedOk>>

\* INSERT INTO users: the sequence advances whether or not the row is accepted.
InsertUser(row) ==
    LET err == UsersInsertError(row) IN
    /\ users_seq' = users_seq + 1
    /\ idOwner' = Append(idOwner, IF err = "" THEN row.firebase_uid ELSE "")
    /\ users' = IF err = "" THEN users \cup {row} ELSE users
    /\ deletedOk' = IF err = "" THEN [deletedOk EXCEPT ![row.firebase_uid] = FALSE] ELSE deletedOk

\* RETURNING user_id, firebase_uid, email, name, age, weight, height
RegisterReturning(u) ==
    [user_id |-> u.user_id, firebase_uid |-> u.firebase_uid, email |-> u.email,
     name |-> u.name, age |-> u.age, weight |-> u.weight, height |-> u.height]

\* Mutant: registration of a known subject writes the body's profile fields.
FirebaseRegister_Select_Upsert(r) ==
    LET q == reqs[r]
        found == SelectUserByUid(q.user.firebaseUid)
    IN
    /\ q.pc = "register.select"
    /\ IF found # {}
       THEN LET u == CHOOSE u \in found : TRUE
                v == [u EXCEPT !.age = q.body.age, !.weight = q.body.weight,
                               !.height = q.body.height]
            IN
            /\ users' = (users \ {u}) \cup {v}
            /\ reqs' = [reqs EXCEPT ![r] =
                 Respond([q EXCEPT !.dbUsed = TRUE], 200,
                         [success |-> TRUE, message |-> "User already exists", user |-> v])]
            /\ NoteResolved(q.user.firebaseUid, u.user_id)
       ELSE /\ users' = users
            /\ reqs' = [reqs EXCEPT ![r] = [q EXCEPT !.dbUsed = TRUE, !.pc = "register.insert"]]
            /\ UNCHANGED lastResolved
    /\ UNCHANGED <<lastPut, lastPrefs, schema, massage_sessions, preferences, users_seq, sessions_seq,
                   preferences_seq, started, idOwner, deletedOk>>

\* POST /api/auth/firebase-register: SELECT * FROM users WHERE firebase_uid = $1
FirebaseRegister_Select(r) ==
    LET q == reqs[r]
        found == SelectUserByUid(q.user.firebaseUid)
    IN
    /\ q.pc = "register.select"
    /\ IF found # {}
       THEN LET u == CHOOSE u \in found : TRUE IN
            /\ reqs' = [reqs EXCEPT ![r] =
                 Respond([q EXCEPT !.dbUsed = TRUE], 200,
                         [success |-> TRUE, message |-> "User already exists", user |-> u])]
            /\ NoteResolved(q.user.firebaseUid, u.user_id)
       ELSE /\ reqs' = [reqs EXCEPT ![r] = [q EXCEPT !.dbUsed = TRUE, !.pc = "register.insert"]]
            /\ UNCHANGED lastResolved
    /\ UNCHANGED <<lastPut, lastPrefs, schema, users, massage_sessions, preferences, users_seq, sessions_seq,
                   preferences_seq, started, idOwner, deletedOk>>

\* POST /api/auth/firebase-register: INSERT INTO users (...) RETURNING ...
FirebaseRegister_Insert(r) ==
    LET q == reqs[r]
        row == [user_id |-> users_seq + 1, firebase_uid |-> q.user.firebaseUid,
                email |-> q.user.email, name |-> q.body.name, age |-> q.body.age,
                weight |-> q.body.weight, height |-> q.body.height,
                gender |-> GenderOrMale(q.body.gender)]
        err == UsersInsertError(row)
    IN
    /\ q.pc = "register.insert"
    /\ InsertUser(row)
    /\ IF err = ""
       THEN /\ reqs' = [reqs EXCEPT ![r] =
                 Respond(q, 200, [success |-> TRUE, message |-> "User registered successfully",
                                  user |-> RegisterReturning(row)])]
            /\ NoteResolved(row.firebase_uid, row.user_id)
       ELSE /\ reqs' = [reqs EXCEPT ![r] = Respond(q, 500, ErrorBody(err))]
            /\ UNCHANGED lastResolved
    /\ UNCHANGED <<lastPut, lastPrefs, schema, massage_sessions, preferences, sessions_seq, preferences_seq, started>>

\* error.message of the error verifyIdToken throws: it names the cause.
VerifyErrorMessage(tok) == tok.st

\* POST /api/auth/verify-firebase: admin.auth().verifyIdToken(firebaseToken)
VerifyFirebase_Token(r) ==
    LET q == reqs[r]
        tok == q.body.firebaseToken
    IN
    /\ q.pc = "verify.token"
    /\ reqs' = [reqs EXCEPT ![r] =
         IF tok.st # "valid" THEN Respond(q, 401, ErrorBody(VerifyErrorMessage(tok)))
         ELSE [q EXCEPT !.user = [firebaseUid |-> tok.uid, email |-> tok.email],
                        !.pc = "verify.select"]]
    /\ UNCHANGED <<lastPut, lastPrefs, schema, users, massage_sessions, preferences, users_seq, sessions_seq,
                   preferences_seq, started, idOwner, lastResolved, deletedOk>>

\* Mutant: verify-firebase inserts without looking the subject up.
VerifyFirebase_Select_NoLookup(r) ==
    LET q == reqs[r] IN
    /\ q.pc = "verify.select"
    /\ reqs' = [reqs EXCEPT ![r] = [q EXCEPT !.dbUsed = TRUE, !.pc = "verify.insert"]]
    /\ UNCHANGED <<lastPut, lastPrefs, schema, users, massage_sessions, preferences, users_seq, sessions_seq,
                   preferences_seq, started, idOwner, lastResolved, deletedOk>>

\* POST /api/auth/verify-firebase: SELECT * FROM users WHERE firebase_uid = $1
VerifyFirebase_Select(r) ==
    LET q == reqs[r]
        found == SelectUserByUid(q.user.firebaseUid)
    IN
    /\ q.pc = "verify.select"
    /\ IF found # {}
       THEN LET u == CHOOSE u \in found : TRUE IN
            /\ reqs' = [reqs EXCEPT ![r] =
                 Respond([q EXCEPT !.dbUsed = TRUE], 200,
                         [success |-> TRUE, token |-> q.body.firebaseToken, user |-> u])]
            /\ NoteResolved(q.user.firebaseUid, u.user_id)
       ELSE /\ reqs' = [reqs EXCEPT ![r] = [q EXCEPT !.dbUsed = TRUE, !.pc = "verify.insert"]]
            /\ UNCHANGED lastResolved
    /\ UNCHANGED <<lastPut, lastPrefs, schema, users, massage_sessions, preferences, users_seq, sessions_seq,
                   preferences_seq, started, idOwner, deletedOk>>

\* POST /api/auth/verify-firebase: INSERT INTO users (firebase_uid, email, name, created_at)
\* RETURNING *; the catch block answers 401 for every error.
VerifyFirebase_Insert(r) ==
    LET q == reqs[r]
        row == [user_id |-> users_seq + 1, firebase_uid |-> q.user.firebaseUid,
                email |-> q.user.email, name |-> {LocalPart(q.user.email)}, age |-> {},
                weight |-> {}, height |-> {}, gender |-> {}]
        err == UsersInsertError(row)
    IN
    /\ q.pc = "verify.insert"
    /\ InsertUser(row)
    /\ IF err = ""
       THEN /\ reqs' = [reqs EXCEPT ![r] =
                 Respond(q, 200, [success |-> TRUE, token |-> q.body.firebaseToken, user |-> row])]
            /\ NoteResolved(row.firebase_uid, row.user_id)
       ELSE /\ reqs' = [reqs EXCEPT ![r] = Respond(q, 401, ErrorBody(err))]
            /\ UNCHANGED lastResolved
    /\ UNCHANGED <<lastPut, lastPrefs, schema, massage_sessions, preferences, sessions_seq, preferences_seq, started>>


\* GET /api/auth/me
AuthMe(r) ==
    LET q == reqs[r]
        found == SelectUserByUid(q.user.firebaseUid)
    IN
    /\ q.pc = "me.select"
    /\ reqs' = [reqs EXCEPT ![r] =
         IF found = {} THEN Respond([q EXCEPT !.dbUsed = TRUE], 404, ErrorBody("User not found"))
         ELSE Respond([q EXCEPT !.dbUsed = TRUE], 200,
                      [success |-> TRUE, user |-> CHOOSE u \in found : TRUE])]
    /\ UNCHANGED <<lastPut, lastPrefs, schema, users, massage_sessions, preferences, users_seq, sessions_seq,
                   preferences_seq, started, idOwner, lastResolved, deletedOk>>

\* Mutant: SET name = COALESCE($1, name), ...: an absent field keeps its value.
ProfileSet_Coalesce(u, body) ==
    [u EXCEPT !.name = IF body.name = {} THEN @ ELSE body.name,
              !.age = IF body.age = {} THEN @ ELSE body.age,
              !.weight = IF body.weight = {} THEN @ ELSE body.weight,
              !.height = IF body.height = {} THEN @ ELSE body.height]

\* SET name = $1, age = $2, weight = $3, height = $4
ProfileSet(u, body) ==
    [u EXCEPT !.name = body.name, !.age = body.age, !.weight = body.weight,
              !.height = body.height]

\* The error an UPDATE of users raises when it writes `rows`, "" if none.
UsersUpdateError(rows) ==
    IF schema = "server_js" /\ \E u \in rows : u.name = {} THEN "null value in column name"
    ELSE IF schema = "database_js" /\ \E u \in rows : ~UsersChecks(u) THEN "users check violated"
    ELSE ""

\* RETURNING user_id, email, name, age, weight, height
ProfileReturning(u) ==
    [user_id |-> u.user_id, email |-> u.email, name |-> u.name, age |-> u.age,
     weight |-> u.weight, height |-> u.height]

\* PUT /api/auth/profile: result.rows[0] is absent when no row matched.
AuthProfile(r) ==
    LET q == reqs[r]
        old == SelectUserByUid(q.user.firebaseUid)
        new == {ProfileSet(u, q.body) : u \in old}
        err == UsersUpdateError(new)
    IN
    /\ q.pc = "profile.update"
    /\ IF err = ""
       THEN /\ users' = (users \ old) \cup new
            /\ reqs' = [reqs EXCEPT ![r] =
                 Respond([q EXCEPT !.dbUsed = TRUE], 200,
                         [success |-> TRUE, message |-> "Profile updated successfully",
                          user |-> {ProfileReturning(u) : u \in new}])]
       ELSE /\ users' = users
            /\ reqs' = [reqs EXCEPT ![r] = Respond([q EXCEPT !.dbUsed = TRUE], 500, ErrorBody(err))]
    /\ UNCHANGED <<lastPut, lastPrefs, schema, massage_sessions, preferences, users_seq, sessions_seq,
                   preferences_seq, started, idOwner, lastResolved, deletedOk>>

\* DELETE ... WHERE user_id = (SELECT user_id FROM users WHERE firebase_uid = $1)
DeleteOwned(rows, uid) == {x \in rows : x.user_id \notin UserIdsOf(uid)}

\* DELETE /api/auth/account, first statement: DELETE FROM massage_sessions
DeleteAccount_Sessions(r) ==
    LET q == reqs[r]
        left == DeleteOwned(massage_sessions, q.user.firebaseUid)
    IN
    /\ q.pc = "delete.sessions"
    /\ massage_sessions' = left
    /\ reqs' = [ClearPrior(reqs, q.user.firebaseUid) EXCEPT ![r] =
         [q EXCEPT !.dbUsed = TRUE, !.pc = "delete.preferences",
                   !.removed = q.removed \/ left # massage_sessions]]
    /\ lastResolved' = [lastResolved EXCEPT ![q.user.firebaseUid] = 0]
    /\ UNCHANGED <<lastPut, lastPrefs, schema, users, preferences, users_seq, sessions_seq, preferences_seq,
                   started, idOwner, deletedOk>>

\* DELETE /api/auth/account, second statement: DELETE FROM preferences
DeleteAccount_Preferences(r) ==
    LET q == reqs[r]
        left == DeleteOwned(preferences, q.user.firebaseUid)
    IN
    /\ q.pc = "delete.preferences"
    /\ preferences' = left
    /\ reqs' = [ClearSeen(ClearPrior(reqs, q.user.firebaseUid), q.user.firebaseUid) EXCEPT ![r] =
         [q EXCEPT !.pc = "delete.user", !.removed = q.removed \/ left # preferences]]
    /\ lastResolved' = [lastResolved EXCEPT ![q.user.firebaseUid] = 0]
    /\ lastPrefs' = [lastPrefs EXCEPT ![q.user.firebaseUid] = {}]
    /\ lastPut' = [lastPut EXCEPT ![q.user.firebaseUid] = {}]
    /\ UNCHANGED <<schema, users, massage_sessions, users_seq, sessions_seq, preferences_seq,
                   started, idOwner, deletedOk>>

\* Mutant: the third statement is missing; the handler answers success.
DeleteAccount_User_Skipped(r) ==
    LET q == reqs[r] IN
    /\ q.pc = "delete.user"
    /\ reqs' = [ClearSeen(ClearPrior(reqs, q.user.firebaseUid), q.user.firebaseUid) EXCEPT ![r] =
         Respond([q EXCEPT !.prior = 0], 200,
                 [success |-> TRUE, message |-> "Account deleted successfully"])]
    /\ lastResolved' = [lastResolved EXCEPT ![q.user.firebaseUid] = 0]
    /\ deletedOk' = [deletedOk EXCEPT ![q.user.firebaseUid] = TRUE]
    /\ lastPrefs' = [lastPrefs EXCEPT ![q.user.firebaseUid] = {}]
    /\ lastPut' = [lastPut EXCEPT ![q.user.firebaseUid] = {}]
    /\ UNCHANGED <<schema, users, massage_sessions, preferences, users_seq, sessions_seq,
                   preferences_seq, started, idOwner>>

\* DELETE /api/auth/account, third statement: DELETE FROM users, which cascades.
DeleteAccount_User(r) ==
    LET q == reqs[r]
        gone == SelectUserByUid(q.user.firebaseUid)
    IN
    /\ q.pc = "delete.user"
    /\ users' = users \ gone
    /\ massage_sessions' = CascadeDelete(massage_sessions, gone)
    /\ preferences' = CascadeDelete(preferences, gone)
    /\ reqs' = [ClearSeen(ClearPrior(reqs, q.user.firebaseUid), q.user.firebaseUid) EXCEPT ![r] =
         Respond([q EXCEPT !.removed = q.removed \/ gone # {}, !.prior = 0], 200,
                 [success |-> TRUE, message |-> "Account deleted successfully"])]
    /\ lastResolved' = [lastResolved EXCEPT ![q.user.firebaseUid] = 0]
    /\ deletedOk' = [deletedOk EXCEPT ![q.user.firebaseUid] = TRUE]
    /\ lastPrefs' = [lastPrefs EXCEPT ![q.user.firebaseUid] = {}]
    /\ lastPut' = [lastPut EXCEPT ![q.user.firebaseUid] = {}]
    /\ UNCHANGED <<schema, users_seq, sessions_seq, preferences_seq, started, idOwner>>


\* SELECT user_id FROM users WHERE firebase_uid = $1, and the 404 of a handler
\* that finds no row; otherwise the handler goes on at `next` with userId.
LookupUser(r, at, next) ==
    LET q == reqs[r]
        ids == UserIdsOf(q.user.firebaseUid)
    IN
    /\ q.pc = at
    /\ reqs' = [reqs EXCEPT ![r] =
         IF ids = {} THEN Respond([q EXCEPT !.dbUsed = TRUE], 404, ErrorBody("User not found"))
         ELSE [q EXCEPT !.dbUsed = TRUE, !.pc = next, !.userId = CHOOSE i \in ids : TRUE]]
    /\ UNCHANGED <<lastPut, lastPrefs, schema, users, massage_sessions, preferences, users_seq, sessions_seq,
                   preferences_seq, started, idOwner, lastResolved, deletedOk>>

\* The error an INSERT INTO massage_sessions of `row` raises, "" if none.
\* server.js: CHECK (level >= 0 AND level <= 5); database.js: level 1..10,
\* duration > 0, calories_burned >= 0 and valid_session_time.
SessionsInsertError(row) ==
    IF schema = "server_js" /\ ~(row.level >= 0 /\ row.level <= 5)
        THEN "massage_sessions_level_check"
    ELSE IF schema = "database_js" /\ ~(row.level >= 1 /\ row.level <= 10)
        THEN "massage_sessions_level_check"
    ELSE IF schema = "database_js" /\ ~(row.duration > 0)
        THEN "massage_sessions_duration_check"
    ELSE IF schema = "database_js" /\ ~(row.calories_burned >= 0)
        THEN "massage_sessions_calories_burned_check"
    ELSE IF schema = "database_js" /\ ~(row.ended_at > row.started_at)
        THEN "valid_session_time"
    ELSE IF ~ForeignKeyOk(row.user_id) THEN "massage_sessions_user_id_fkey"
    ELSE ""

\* POST /api/sessions: SELECT user_id
PostSessions_User(r) == LookupUser(r, "postSession.user", "postSession.insert")

\* POST /api/sessions: INSERT INTO massage_sessions (...) RETURNING *
PostSessions_Insert(r) ==
    LET q == reqs[r]
        b == q.body
        row == [session_id |-> sessions_seq + 1, user_id |-> q.userId, level |-> b.level,
                duration |-> b.duration, heat_enabled |-> b.heatEnabled,
                rotate_enabled |-> b.rotateEnabled, calories_burned |-> b.caloriesBurned,
                notes |-> b.notes, started_at |-> b.startedAt, ended_at |-> b.endedAt]
        err == SessionsInsertError(row)
    IN
    /\ q.pc = "postSession.insert"
    /\ sessions_seq' = sessions_seq + 1
    /\ IF err = ""
       THEN /\ massage_sessions' = massage_sessions \cup {row}
            /\ reqs' = [reqs EXCEPT ![r] =
                 Respond(q, 200, [success |-> TRUE, message |-> "Session saved successfully",
                                  session |-> row])]
       ELSE /\ massage_sessions' = massage_sessions
            /\ reqs' = [reqs EXCEPT ![r] = Respond(q, 500, ErrorBody(err))]
    /\ UNCHANGED <<lastPut, lastPrefs, schema, users, preferences, users_seq, preferences_seq, started, idOwner,
                   lastResolved, deletedOk>>

\* ORDER BY started_at DESC: the orders the store may return the rows in
\* (rows with equal started_at come in any order).
RECURSIVE OrderByStartedAtDesc(_)
OrderByStartedAtDesc(rows) ==
    IF rows = {} THEN {<< >>}
    ELSE UNION {{<<x>> \o t : t \in OrderByStartedAtDesc(rows \ {x})} :
                x \in {y \in rows : \A z \in rows : y.started_at >= z.started_at}}

\* LIMIT $2 OFFSET $3
LimitOffset(ord, limit, offset) ==
    SubSeq(ord, offset + 1, IF offset + limit < Len(ord) THEN offset + limit ELSE Len(ord))

\* session_id, level, duration, heat_enabled as "heatEnabled", ...
SessionJson(x) ==
    [session_id |-> x.session_id, level |-> x.level, duration |-> x.duration,
     heatEnabled |-> x.heat_enabled, rotateEnabled |-> x.rotate_enabled,
     caloriesBurned |-> x.calories_burned, notes |-> x.notes,
     startedAt |-> x.started_at, endedAt |-> x.ended_at]

\* GET /api/sessions: SELECT user_id
GetSessions_User(r) == LookupUser(r, "getSessions.user", "getSessions.select")

\* GET /api/sessions: SELECT ... WHERE user_id = $1 ORDER BY started_at DESC
\* LIMIT $2 OFFSET $3 (the store refuses a negative LIMIT or OFFSET)
GetSessions_Select(r) ==
    LET q == reqs[r]
        limit == ParseIntOr(q.query.limit, DefaultLimit)
        offset == ParseIntOr(q.query.offset, DefaultOffset)
        rows == {x \in massage_sessions : x.user_id = q.userId}
    IN
    /\ q.pc = "getSessions.select"
    /\ IF limit < 0 THEN reqs' = [reqs EXCEPT ![r] = Respond(q, 500, ErrorBody("LIMIT must not be negative"))]
       ELSE IF offset < 0 THEN reqs' = [reqs EXCEPT ![r] = Respond(q, 500, ErrorBody("OFFSET must not be negative"))]
       ELSE \E ord \in OrderByStartedAtDesc(rows) :
              LET page == LimitOffset(ord, limit, offset) IN
              reqs' = [reqs EXCEPT ![r] =
                  Respond(q, 200, [success |-> TRUE, count |-> Len(page),
                                   sessions |-> [i \in 1..Len(page) |-> SessionJson(page[i])]])]
    /\ UNCHANGED <<lastPut, lastPrefs, schema, users, massage_sessions, preferences, users_seq, sessions_seq,
                   preferences_seq, started, idOwner, lastResolved, deletedOk>>

\* WHERE user_id = $1 AND started_at >= NOW() - INTERVAL '${days} days'
\* (timestamps are minutes, a day has 1440 of them)
SessionsSince(userId, now, days) ==
    {x \in massage_sessions : x.user_id = userId /\ x.started_at >= now - days * 1440}

\* SUM(column): NULL over no rows.
RECURSIVE SumColumn(_, _)
SumColumn(rows, column) ==
    IF rows = {} THEN 0
    ELSE LET x == CHOOSE x \in rows : TRUE IN x[column] + SumColumn(rows \ {x}, column)

SumOrNull(rows, column) == IF rows = {} THEN {} ELSE {SumColumn(rows, column)}

\* Mutant: COALESCE(SUM(CASE WHEN heat_enabled THEN 1 ELSE 0 END), 0)
HeatCount_Coalesce(rows) == {Cardinality({x \in rows : x.heat_enabled})}

\* SUM(CASE WHEN heat_enabled THEN 1 ELSE 0 END): NULL over no rows.
HeatCount(rows) == IF rows = {} THEN {} ELSE {Cardinality({x \in rows : x.heat_enabled})}

\* a::float / b::float: NULL when an operand is NULL, an error when b is 0.
FloatDivError(a, b) == IF a # {} /\ b = 0 THEN "division by zero" ELSE ""

\* parseInt(x) || 0 of a sum: 0 when the sum is NULL.
IntOrZero(x) == IF x = {} THEN 0 ELSE CHOOSE v \in x : TRUE

\* parseFloat(AVG(level)) || 0 as the fraction sum / count; 0 is 0 / 1.
AvgLevel(rows) ==
    IF rows = {} \/ SumColumn(rows, "level") = 0 THEN [num |-> 0, den |-> 1]
    ELSE [num |-> SumColumn(rows, "level"), den |-> Cardinality(rows)]

\* parseInt(heat / count * 100) || 0: the integer part of the percentage.
HeatUsagePercent(heat, count) ==
    IF heat = {} THEN 0 ELSE ((CHOOSE h \in heat : TRUE) * 100) \div count

\* GET /api/sessions/statistics: SELECT user_id
GetStatistics_User(r) == LookupUser(r, "getStatistics.user", "getStatistics.select")

\* GET /api/sessions/statistics: SELECT COUNT(*), SUM(duration), ... and the
\* response built from its one row.
GetStatistics_Select(r) ==
    LET q == reqs[r]
        days == ParseIntOr(q.query.days, DefaultDays)
        rows == SessionsSince(q.userId, q.now, days)
        heat == HeatCount(rows)
        err == FloatDivError(heat, Cardinality(rows))
    IN
    /\ q.pc = "getStatistics.select"
    /\ reqs' = [reqs EXCEPT ![r] =
         IF err # "" THEN Respond(q, 500, ErrorBody(err))
         ELSE Respond(q, 200,
                [success |-> TRUE,
                 statistics |->
                   [totalSessions |-> Cardinality(rows),
                    totalMinutes |-> IntOrZero(SumOrNull(rows, "duration")),
                    totalCalories |-> IntOrZero(SumOrNull(rows, "calories_burned")),
                    avgLevel |-> AvgLevel(rows),
                    heatUsagePercent |-> HeatUsagePercent(heat, Cardinality(rows)),
                    dateRange |-> days]])]
    /\ UNCHANGED <<lastPut, lastPrefs, schema, users, massage_sessions, preferences, users_seq,
                   sessions_seq, preferences_seq, started, idOwner, lastResolved, deletedOk>>

\* notification_time is VARCHAR(5) in server.js and TIME in database.js, which
\* stores and returns hours, minutes and seconds.
TimeColumn(t) == IF schema = "database_js" /\ Len(t) = 2 THEN Append(t, 0) ELSE t

\* CHECK constraints of preferences in src/config/database.js.
PreferencesChecks(p) ==
    /\ \A v \in p.favorite_level : v >= 1 /\ v <= 10
    /\ \A v \in p.default_duration : v > 0
    /\ \A v \in p.theme : v \in {"light", "dark", "auto"}
    /\ \A v \in p.language : v \in {"vi", "en", "zh", "ja", "ko"}

\* Mutant: the defaults of the column declarations with heat switched on.
DefaultPreferences_HeatOn(userId) ==
    [preference_id |-> preferences_seq + 1, user_id |-> userId, favorite_level |-> {3},
     default_duration |-> {15}, enable_heat_by_default |-> {TRUE},
     enable_notifications |-> {TRUE}, notification_time |-> {TimeColumn(<<20, 0>>)},
     theme |-> {"light"}, language |-> {"vi"}]

\* VALUES ($1, 3, 15, false, true, '20:00', 'light', 'vi', NOW())
DefaultPreferences(userId) ==
    [preference_id |-> preferences_seq + 1, user_id |-> userId, favorite_level |-> {3},
     default_duration |-> {15}, enable_heat_by_default |-> {FALSE},
     enable_notifications |-> {TRUE}, notification_time |-> {TimeColumn(<<20, 0>>)},
     theme |-> {"light"}, language |-> {"vi"}]

\* The error an INSERT INTO preferences of `row` raises, "" if none.
PreferencesInsertError(row) ==
    IF schema = "database_js" /\ ~PreferencesChecks(row) THEN "preferences check violated"
    ELSE IF \E p \in preferences : p.user_id = row.user_id THEN "duplicate key preferences_user_id_key"
    ELSE IF ~ForeignKeyOk(row.user_id) THEN "preferences_user_id_fkey"
    ELSE ""

\* The preferences object of the GET /api/preferences response.
PreferencesJson(p) ==
    [favoriteLevel |-> p.favorite_level, defaultDuration |-> p.default_duration,
     enableHeatByDefault |-> p.enable_heat_by_default,
     enableNotifications |-> p.enable_notifications,
     notificationTime |-> p.notification_time, theme |-> p.theme, language |-> p.language]

\* GET /api/preferences: SELECT user_id
GetPreferences_User(r) == LookupUser(r, "getPrefs.user", "getPrefs.select")

\* Mutant: the handler inserts the defaults without looking for a row.
GetPreferences_Select_NoLookup(r) ==
    LET q == reqs[r] IN
    /\ q.pc = "getPrefs.select"
    /\ reqs' = [reqs EXCEPT ![r] = [q EXCEPT !.pc = "getPrefs.insert"]]
    /\ UNCHANGED <<lastPut, lastPrefs, schema, users, massage_sessions, preferences, users_seq, sessions_seq,
                   preferences_seq, started, idOwner, lastResolved, deletedOk>>

\* GET /api/preferences: SELECT * FROM preferences WHERE user_id = $1
GetPreferences_Select(r) ==
    LET q == reqs[r]
        found == {p \in preferences : p.user_id = q.userId}
    IN
    /\ q.pc = "getPrefs.select"
    /\ IF found = {}
       THEN /\ reqs' = [reqs EXCEPT ![r] = [q EXCEPT !.pc = "getPrefs.insert"]]
            /\ UNCHANGED lastPrefs
       ELSE LET j == PreferencesJson(CHOOSE p \in found : TRUE) IN
            /\ reqs' = [reqs EXCEPT ![r] = Respond(q, 200, [success |-> TRUE, preferences |-> j])]
            /\ NoteRead(q.user.firebaseUid, j)
    /\ UNCHANGED <<lastPut, schema, users, massage_sessions, preferences, users_seq, sessions_seq,
                   preferences_seq, started, idOwner, lastResolved, deletedOk>>

\* GET /api/preferences: INSERT INTO preferences (defaults) RETURNING *
GetPreferences_Insert(r) ==
    LET q == reqs[r]
        row == DefaultPreferences(q.userId)
        err == PreferencesInsertError(row)
    IN
    /\ q.pc = "getPrefs.insert"
    /\ preferences_seq' = preferences_seq + 1
    /\ IF err = ""
       THEN /\ preferences' = preferences \cup {row}
            /\ reqs' = [ClearSeen(reqs, q.user.firebaseUid) EXCEPT ![r] =
                 Respond(q, 200, [success |-> TRUE, preferences |-> PreferencesJson(row)])]
            /\ NoteRead(q.user.firebaseUid, PreferencesJson(row))
            /\ lastPut' = [lastPut EXCEPT ![q.user.firebaseUid] = {}]
       ELSE /\ preferences' = preferences
            /\ reqs' = [reqs EXCEPT ![r] = Respond(q, 500, ErrorBody(err))]
            /\ UNCHANGED <<lastPrefs, lastPut>>
    /\ UNCHANGED <<schema, users, massage_sessions, users_seq, sessions_seq, started, idOwner,
                   lastResolved, deletedOk>>

\* A field of the dynamic UPDATE: written only when the body supplies it.
SetIfSupplied(old, supplied) == IF supplied # {} THEN supplied ELSE old

\* Mutant: the UPDATE writes all seven columns, NULL for an absent field.
PreferencesSet_Overwrite(p, b) ==
    [p EXCEPT !.favorite_level = b.favoriteLevel,
              !.default_duration = b.defaultDuration,
              !.enable_heat_by_default = b.enableHeatByDefault,
              !.enable_notifications = b.enableNotifications,
              !.notification_time = {TimeColumn(t) : t \in b.notificationTime},
              !.theme = b.theme,
              !.language = b.language]

\* UPDATE preferences SET <the supplied fields>, updated_at = NOW()
PreferencesSet(p, b) ==
    [p EXCEPT !.favorite_level = SetIfSupplied(@, b.favoriteLevel),
              !.default_duration = SetIfSupplied(@, b.defaultDuration),
              !.enable_heat_by_default = SetIfSupplied(@, b.enableHeatByDefault),
              !.enable_notifications = SetIfSupplied(@, b.enableNotifications),
              !.notification_time = SetIfSupplied(@, {TimeColumn(t) : t \in b.notificationTime}),
              !.theme = SetIfSupplied(@, b.theme),
              !.language = SetIfSupplied(@, b.language)]

\* PUT /api/preferences: SELECT user_id
PutPreferences_User(r) == LookupUser(r, "putPrefs.user", "putPrefs.update")

\* PUT /api/preferences: UPDATE preferences ... WHERE user_id = $n
PutPreferences_Update(r) ==
    LET q == reqs[r]
        old == {p \in preferences : p.user_id = q.userId}
        new == {PreferencesSet(p, q.body) : p \in old}
        err == IF schema = "database_js" /\ \E p \in new : ~PreferencesChecks(p)
               THEN "preferences check violated" ELSE ""
    IN
    /\ q.pc = "putPrefs.update"
    /\ IF err = ""
       THEN /\ preferences' = (preferences \ old) \cup new
            /\ reqs' = [ClearSeen(reqs, q.user.firebaseUid) EXCEPT ![r] =
                 Respond(q, 200, [success |-> TRUE, message |-> "Preferences updated successfully"])]
            /\ lastPrefs' = [lastPrefs EXCEPT ![q.user.firebaseUid] = {}]
            /\ lastPut' = [lastPut EXCEPT ![q.user.firebaseUid] = {q.body}]
       ELSE /\ preferences' = preferences
            /\ reqs' = [reqs EXCEPT ![r] = Respond(q, 500, ErrorBody(err))]
            /\ UNCHANGED <<lastPrefs, lastPut>>
    /\ UNCHANGED <<schema, users, massage_sessions, users_seq, sessions_seq, preferences_seq,
                   started, idOwner, lastResolved, deletedOk>>

----------------------------------------------------------------------------
(* Specification *)

\* The pcs at which a handler awaits pool.query.
QueryPcs ==
    {"register.select", "register.insert", "verify.select", "verify.insert", "me.select",
     "profile.update", "delete.sessions", "delete.preferences", "delete.user",
     "postSession.user", "postSession.insert", "getSessions.user", "getSessions.select",
     "getStatistics.user", "getStatistics.select",
     "getPrefs.user", "getPrefs.select",
     "getPrefs.insert", "putPrefs.user", "putPrefs.update"}

\* pool.query rejects because the store is unreachable: the statement has no
\* effect and the handler's catch block answers (401 in verify-firebase, 500
\* in every other handler).
StoreFail(r) ==
    LET q == reqs[r] IN
    /\ q.pc \in QueryPcs
    /\ reqs' = [reqs EXCEPT ![r] =
         Respond([q EXCEPT !.dbUsed = TRUE], IF q.kind = "verify" THEN 401 ELSE 500,
                 ErrorBody("store unavailable"))]
    /\ UNCHANGED <<lastPut, lastPrefs, schema, users, massage_sessions, preferences, users_seq, sessions_seq,
                   preferences_seq, started, idOwner, lastResolved, deletedOk>>

\* One await of a handler, or the middleware.
Handle(r) ==
    \/ VerifyToken(r)
    \/ FirebaseRegister_Select(r)
    \/ FirebaseRegister_Insert(r)
    \/ VerifyFirebase_Token(r)
    \/ VerifyFirebase_Select(r)
    \/ VerifyFirebase_Insert(r)
    \/ AuthMe(r)
    \/ AuthProfile(r)
    \/ DeleteAccount_Sessions(r)
    \/ DeleteAccount_Preferences(r)
    \/ DeleteAccount_User(r)
    \/ PostSessions_User(r)
    \/ PostSessions_Insert(r)
    \/ GetSessions_User(r)
    \/ GetSessions_Select(r)
    \/ GetPreferences_User(r)
    \/ GetPreferences_Select(r)
    \/ GetPreferences_Insert(r)
    \/ PutPreferences_User(r)
    \/ PutPreferences_Update(r)

\* Requests of two subjects, concurrent in MaxSlots slots.
Next == \E r \in Slots : Start(r, "identity") \/ Handle(r)

Spec == Init /\ [][Next]_vars

\* Requests that fail authentication in every way.
NextAuth == \E r \in Slots : Start(r, "auth") \/ Handle(r)

SpecAuth == Init /\ [][NextAuth]_vars

\* The same requests over a store that may become unreachable at any statement.
NextFault == \E r \in Slots : Start(r, "identity") \/ Handle(r) \/ StoreFail(r)

SpecFault == Init /\ [][NextFault]_vars

\* A session saved earlier by POST /sessions: the i-th row of user 1.  The
\* start times do not follow the order of the ids.
StoredSession(i) ==
    [session_id |-> i, user_id |-> 1, level |-> 3, duration |-> 15, heat_enabled |-> TRUE,
     rotate_enabled |-> FALSE, calories_burned |-> 50, notes |-> {},
     started_at |-> 10 + ((i * 20) % 60), ended_at |-> 25 + ((i * 20) % 60)]

\* The store once subject uid_1 has signed in through verify-firebase and
\* saved up to MaxSessions sessions.
InitSessions ==
    /\ schema \in Schemas
    /\ users = {[user_id |-> 1, firebase_uid |-> "uid_1", email |-> EmailA,
                 name |-> {LocalPart(EmailA)}, age |-> {}, weight |-> {}, height |-> {},
                 gender |-> {}]}
    /\ \E n \in 0..MaxSessions :
         /\ massage_sessions = {StoredSession(i) : i \in 1..n}
         /\ sessions_seq = n
    /\ preferences = {}
    /\ users_seq = 1
    /\ preferences_seq = 0
    /\ reqs = [r \in Slots |-> Idle]
    /\ started = 0
    /\ idOwner = <<"uid_1">>
    /\ lastResolved = [s \in Subjects |-> IF s = "uid_1" THEN 1 ELSE 0]
    /\ deletedOk = [s \in Subjects |-> FALSE]
    /\ lastPrefs = [s \in Subjects |-> {}]
    /\ lastPut = [s \in Subjects |-> {}]

\* Session creation and listing, concurrent in MaxSlots slots.
NextSessions ==
    \E r \in Slots :
        \/ Start(r, "sessions")
        \/ VerifyToken(r)
        \/ PostSessions_User(r)
        \/ PostSessions_Insert(r)
        \/ GetSessions_User(r)
        \/ GetSessions_Select(r)
        \/ GetStatistics_User(r)
        \/ GetStatistics_Select(r)

SpecSessions == InitSessions /\ [][NextSessions]_vars

----------------------------------------------------------------------------
(* Vocabulary of the properties *)

\* Slot r took the step: only the acting request changes its pc.
Acted(r) == reqs'[r].pc # reqs[r].pc

Answered(q) == q.pc = "done"

\* The subject user_id i was issued to.
OwnerOfId(i) == IF i \in 1..Len(idOwner) THEN idOwner[i] ELSE ""

\* The rows of subject s: its users rows and the rows that reference a
\* user_id issued to s.
RowsOf(s) ==
    [users |-> {u \in users : u.firebase_uid = s},
     sessions |-> {x \in massage_sessions : OwnerOfId(x.user_id) = s},
     preferences |-> {p \in preferences : OwnerOfId(p.user_id) = s}]

NoRows == [users |-> {}, sessions |-> {}, preferences |-> {}]

\* The request presents "Bearer <token>" with a token the provider accepts.
ValidAuthorization(hdr) == hdr.scheme = "bearer" /\ hdr.tok.st = "valid"

----------------------------------------------------------------------------
(* C1: concurrent first-time resolutions of one subject *)

\* C1: every resolution request (verify-firebase or firebase-register) that
\* carries a valid token is answered without a duplicate-key error on the
\* subject identifier, however the lookups and inserts of concurrent
\* first-time requests of the same subject interleave.
C1_NoDuplicateKeySurfaced ==
    \A r \in Slots :
        LET q == reqs[r] IN
        (Answered(q) /\ q.kind \in ResolutionKinds /\ SubjectOf(q) # "" /\ q.status # 200)
            => q.resp.error # "duplicate key users_firebase_uid_key"

----------------------------------------------------------------------------
(* C2: one User row per subject, identifiers never reassigned *)

OneRowPerSubject == \A u, v \in users : u.firebase_uid = v.firebase_uid => u = v

IdentifiersKept ==
    \A u \in users : \A v \in users' :
        /\ u.user_id = v.user_id => u.firebase_uid = v.firebase_uid
        /\ u.firebase_uid = v.firebase_uid => u.user_id = v.user_id

\* C2: in every reachable state there is at most one User row per subject
\* identifier, and no step changes the subject identifier or the user_id of
\* a User row that exists.
C2_SubjectUnique == []OneRowPerSubject /\ [][IdentifiersKept]_vars

\* A profile update rewrote an existing row and a racing insert of the same
\* subject was refused.
C2_Witness ==
    /\ \E r \in Slots : /\ reqs[r].kind = "profile" /\ Answered(reqs[r])
                        /\ reqs[r].status = 200 /\ reqs[r].resp.user # {}
    /\ \E i \in 1..Len(idOwner) : idOwner[i] = ""

----------------------------------------------------------------------------
(* C3: unauthenticated requests to protected routes *)

Unauthenticated(q) == q.kind \in ProtectedKinds /\ ~ValidAuthorization(q.hdr)

RejectedBeforeHandler ==
    \A r \in Slots :
        LET q == reqs[r] IN
        /\ Unauthenticated(q) =>
              /\ q.pc \in {"verifyToken", "done"}
              /\ ~q.dbUsed
              /\ Answered(q) => q.status = 401 /\ DOMAIN q.resp = {"error"}
        /\ (q.kind \in ProtectedKinds /\ (q.dbUsed \/ q.pc \in QueryPcs)) =>
              /\ ValidAuthorization(q.hdr)
              /\ q.user = [firebaseUid |-> q.hdr.tok.uid, email |-> q.hdr.tok.email]

StoreUntouchedByUnauthenticated ==
    \A r \in Slots : (Acted(r) /\ Unauthenticated(reqs'[r])) => store' = store

\* C3: a request to a protected route whose Authorization header is absent,
\* is not "Bearer ...", or carries a token that fails verification is
\* answered 401 without entering the handler, issues no datastore operation
\* and leaves the store unchanged; datastore operations of a handler happen
\* only for a request whose token verified.
C3_Unauthenticated401 == []RejectedBeforeHandler /\ [][StoreUntouchedByUnauthenticated]_vars

\* A rejected bearer token and a missing header were both answered.
C3_Witness ==
    /\ \E r \in Slots : /\ reqs[r].kind \in ProtectedKinds /\ Answered(reqs[r])
                        /\ reqs[r].hdr.scheme = "bearer" /\ reqs[r].hdr.tok.st \in Causes
                        /\ reqs[r].status = 401
    /\ \E r \in Slots : /\ reqs[r].kind \in ProtectedKinds /\ Answered(reqs[r])
                        /\ reqs[r].hdr.scheme # "bearer" /\ reqs[r].status = 401

----------------------------------------------------------------------------
(* C4: requests of one subject and the rows of another *)

\* A step of a request leaves the rows of every other subject as they were.
OtherSubjectsUntouched ==
    \A r \in Slots :
        Acted(r) => \A b \in Subjects \ {SubjectOf(reqs'[r])} : RowsOf(b)' = RowsOf(b)

\* The values of a 200 answer to subject a are values of a's rows, as they
\* are once the answering statement has run.
AnswerFrom(q, a, rows) ==
    CASE q.kind \in {"register", "verify", "me"} ->
            /\ q.resp.user.firebase_uid = a
            /\ \E u \in rows.users : /\ u.user_id = q.resp.user.user_id
                                     /\ u.email = q.resp.user.email
                                     /\ u.name = q.resp.user.name
      [] q.kind = "profile" ->
            \A v \in q.resp.user : \E u \in rows.users : v = ProfileReturning(u)
      [] q.kind = "postSession" -> q.resp.session \in rows.sessions
      [] q.kind = "getSessions" ->
            \A i \in DOMAIN q.resp.sessions :
                \E x \in rows.sessions : q.resp.sessions[i] = SessionJson(x)
      [] q.kind = "getPrefs" ->
            \E p \in rows.preferences : q.resp.preferences = PreferencesJson(p)
      [] OTHER -> TRUE

AnswersScoped ==
    \A r \in Slots :
        (Acted(r) /\ Answered(reqs'[r]) /\ reqs'[r].status = 200)
            => AnswerFrom(reqs'[r], SubjectOf(reqs[r]), RowsOf(SubjectOf(reqs[r]))')

----------------------------------------------------------------------------
(* C5: nothing of a subject survives its account deletion *)

\* C5: once DELETE /auth/account of a subject has answered success, and
\* until a User row is inserted for that subject again, the store holds no
\* User, Session or Preference row of the subject, whatever session
\* creations and preference reads of the subject ran concurrently.
C5_DeletionTotal == \A s \in Subjects : deletedOk[s] => RowsOf(s) = NoRows

\* A session creation that looked its user up before the deletion was
\* refused after it.
C5_Witness ==
    \E s \in Subjects :
        /\ deletedOk[s]
        /\ \E r \in Slots : /\ reqs[r].kind \in {"postSession", "getPrefs"}
                            /\ SubjectOf(reqs[r]) = s /\ Answered(reqs[r])
                            /\ reqs[r].status = 500

----------------------------------------------------------------------------
(* C6: account deletion as one transaction *)

\* C6: a DELETE /auth/account that reports failure has removed nothing: the
\* subject's User, Session and Preference rows are as they were before it.
C6_DeletionAtomic ==
    \A r \in Slots :
        (reqs[r].kind = "delete" /\ Answered(reqs[r]) /\ reqs[r].status # 200)
            => ~reqs[r].removed

----------------------------------------------------------------------------
(* C7: first resolution by verify-firebase *)

\* C7: when verify-firebase, holding a valid token whose subject has no
\* User row, runs its insert, it adds exactly one User row with the token's
\* subject identifier and e-mail address and the e-mail's local part as
\* name, and answers 200 with that row, whatever rows other subjects hold.
C7_VerifyCreatesUser ==
    [][\A r \in Slots :
         (/\ reqs[r].pc = "verify.insert" /\ Acted(r)
          /\ RowsOf(reqs[r].user.firebaseUid).users = {})
            => /\ Answered(reqs'[r]) /\ reqs'[r].status = 200
               /\ \E u \in users' \ users :
                    /\ users' = users \cup {u}
                    /\ u.firebase_uid = reqs[r].user.firebaseUid
                    /\ u.email = reqs[r].user.email
                    /\ u.name = {LocalPart(reqs[r].user.email)}
                    /\ reqs'[r].resp.user = u]_vars

----------------------------------------------------------------------------
(* C8: resolution of a known subject *)

\* A step of verify-firebase or firebase-register keeps every existing row,
\* and its lookup of a subject that has a User row answers 200 with that row
\* and changes nothing in the store.
ResolutionKeepsRows ==
    \A r \in Slots :
        (Acted(r) /\ reqs'[r].kind \in ResolutionKinds) =>
            /\ users \subseteq users'
            /\ massage_sessions' = massage_sessions
            /\ preferences' = preferences
            /\ (/\ reqs[r].pc \in {"register.select", "verify.select"}
                /\ RowsOf(reqs[r].user.firebaseUid).users # {})
                  => /\ store' = store
                     /\ Answered(reqs'[r]) /\ reqs'[r].status = 200
                     /\ reqs'[r].resp.user \in RowsOf(reqs[r].user.firebaseUid).users

\* Only PUT /auth/profile and DELETE /auth/account change or remove a User row.
OnlyProfileAndDeleteChangeUsers ==
    \A r \in Slots :
        (Acted(r) /\ ~(users \subseteq users')) => reqs'[r].kind \in {"profile", "delete"}

\* C8: resolving a subject that already has a User row leaves that row and
\* every other row unchanged and returns the existing row, whatever the
\* request body carries; only PUT /auth/profile and DELETE /auth/account
\* change an existing User row.
C8_ResolutionFrame == [][ResolutionKeepsRows /\ OnlyProfileAndDeleteChangeUsers]_vars

\* firebase-register found the row of its subject although its body carried
\* other profile fields.
C8_Witness ==
    \E r \in Slots :
        /\ reqs[r].kind = "register" /\ Answered(reqs[r]) /\ reqs[r].status = 200
        /\ reqs[r].resp.message = "User already exists"
        /\ reqs[r].body.name # {} /\ reqs[r].body.name # reqs[r].resp.user.name

----------------------------------------------------------------------------
(* C9: resolution is idempotent *)

\* C9: a resolution request of a subject that starts after an earlier
\* resolution of the subject answered 200, with no step of an account
\* deletion of the subject in between or since, answers 200 with the same
\* user_id, and the subject has exactly one User row.
C9_ResolutionIdempotent ==
    \A r \in Slots :
        LET q == reqs[r] IN
        (Answered(q) /\ q.kind \in ResolutionKinds /\ q.prior # 0) =>
            /\ q.status = 200
            /\ q.resp.user.user_id = q.prior
            /\ Cardinality(RowsOf(SubjectOf(q)).users) = 1

\* A verify-firebase call was answered after a firebase-register call of
\* the same subject, or the other way round.
C9_Witness ==
    \E r \in Slots :
        /\ Answered(reqs[r]) /\ reqs[r].kind = "verify" /\ reqs[r].prior # 0
        /\ reqs[r].status = 200
        /\ reqs[r].resp.user.name # {LocalPart(reqs[r].resp.user.email)}

----------------------------------------------------------------------------
(* C10: verification failures and what the caller sees *)

\* The token a request presented was rejected by the provider.
TokenRejected(q) ==
    /\ q.kind \in Kinds
    /\ TokenOf(q.kind, q.hdr, q.body).st \in Causes
    /\ q.kind # "verify" => q.hdr.scheme = "bearer"

\* C10: two requests to the same token-verifying endpoint whose tokens fail
\* verification, for whatever causes, get the same status and the same body.
C10_FailuresIndistinguishable ==
    \A r1, r2 \in Slots :
        (/\ Answered(reqs[r1]) /\ Answered(reqs[r2])
         /\ reqs[r1].kind = reqs[r2].kind
         /\ TokenRejected(reqs[r1]) /\ TokenRejected(reqs[r2]))
            => /\ reqs[r1].status = reqs[r2].status
               /\ reqs[r1].resp = reqs[r2].resp

----------------------------------------------------------------------------
(* C11: the first preference read creates the defaults *)

\* The time of day t is h:m (a TIME column adds the seconds, which are 0).
IsTimeOfDay(t, h, m) == Len(t) >= 2 /\ t[1] = h /\ t[2] = m /\ \A i \in 3..Len(t) : t[i] = 0

\* j carries level 3, duration 15, heat off, notifications on, 20:00, light, vi.
IsDefaultPreferences(j) ==
    /\ j.favoriteLevel = {3}
    /\ j.defaultDuration = {15}
    /\ j.enableHeatByDefault = {FALSE}
    /\ j.enableNotifications = {TRUE}
    /\ j.notificationTime # {} /\ \A t \in j.notificationTime : IsTimeOfDay(t, 20, 0)
    /\ j.theme = {"light"}
    /\ j.language = {"vi"}

\* The columns of a preferences row under the names the response gives them.
ColumnsOf(p) ==
    [favoriteLevel |-> p.favorite_level, defaultDuration |-> p.default_duration,
     enableHeatByDefault |-> p.enable_heat_by_default,
     enableNotifications |-> p.enable_notifications,
     notificationTime |-> p.notification_time, theme |-> p.theme, language |-> p.language]

\* C11: when GET /preferences, for a user that exists and has no Preference
\* row, runs its insert, it adds exactly one Preference row of that user with
\* the defaults (level 3, duration 15, heat off, notifications on, 20:00,
\* light, vi) and answers 200 with exactly those values.
C11_DefaultsCreated ==
    [][\A r \in Slots :
         (/\ reqs[r].pc = "getPrefs.insert" /\ Acted(r)
          /\ \E u \in users : u.user_id = reqs[r].userId
          /\ ~\E p \in preferences : p.user_id = reqs[r].userId)
            => /\ Answered(reqs'[r]) /\ reqs'[r].status = 200
               /\ IsDefaultPreferences(reqs'[r].resp.preferences)
               /\ users' = users /\ massage_sessions' = massage_sessions
               /\ \E p \in preferences' \ preferences :
                    /\ preferences' = preferences \cup {p}
                    /\ p.user_id = reqs[r].userId
                    /\ IsDefaultPreferences(ColumnsOf(p))]_vars

\* The subject's first preference read was answered with the row it created.
C11_Witness ==
    \E r \in Slots :
        /\ reqs[r].kind = "getPrefs" /\ Answered(reqs[r]) /\ reqs[r].status = 200
        /\ started = 2
        /\ \E p \in RowsOf(SubjectOf(reqs[r])).preferences :
             /\ p.preference_id = preferences_seq
             /\ reqs[r].resp.preferences = ColumnsOf(p)
             /\ IsDefaultPreferences(ColumnsOf(p))

----------------------------------------------------------------------------
(* C13: partial update of the preferences *)

\* The stored time of day is the supplied one.
SameTimeOfDay(stored, supplied) ==
    /\ stored # {}
    /\ \A t \in stored : \A b \in supplied : IsTimeOfDay(t, b[1], b[2])

\* Row new is row old with exactly the fields the body supplies set to the
\* supplied values.
ExactlySuppliedSet(old, new, b) ==
    /\ new.preference_id = old.preference_id
    /\ new.user_id = old.user_id
    /\ new.favorite_level = (IF b.favoriteLevel # {} THEN b.favoriteLevel ELSE old.favorite_level)
    /\ new.default_duration = (IF b.defaultDuration # {} THEN b.defaultDuration ELSE old.default_duration)
    /\ new.enable_heat_by_default =
          (IF b.enableHeatByDefault # {} THEN b.enableHeatByDefault ELSE old.enable_heat_by_default)
    /\ new.enable_notifications =
          (IF b.enableNotifications # {} THEN b.enableNotifications ELSE old.enable_notifications)
    /\ IF b.notificationTime # {} THEN SameTimeOfDay(new.notification_time, b.notificationTime)
       ELSE new.notification_time = old.notification_time
    /\ new.theme = (IF b.theme # {} THEN b.theme ELSE old.theme)
    /\ new.language = (IF b.language # {} THEN b.language ELSE old.language)

----------------------------------------------------------------------------
(* C14: GET /auth/me after the account deletion *)

\* C14: when GET /auth/me of a subject runs its lookup after a DELETE
\* /auth/account of the subject answered success, with no User row inserted
\* for the subject since, it answers 404 and returns no profile.
C14_MeAfterDelete ==
    [][\A r \in Slots :
         (/\ reqs[r].pc = "me.select" /\ Acted(r)
          /\ deletedOk[reqs[r].user.firebaseUid])
            => /\ Answered(reqs'[r]) /\ reqs'[r].status = 404
               /\ DOMAIN reqs'[r].resp = {"error"}
               /\ store' = store]_vars

\* GET /auth/me was answered 404 for a subject whose account, once
\* registered, has been deleted.
C14_Witness ==
    \E r \in Slots :
        /\ reqs[r].kind = "me" /\ Answered(reqs[r]) /\ reqs[r].status = 404
        /\ deletedOk[SubjectOf(reqs[r])]
        /\ \E i \in 1..Len(idOwner) : idOwner[i] = SubjectOf(reqs[r])

----------------------------------------------------------------------------
(* C15: handlers that do not create the user *)

\* C15: when a protected handler other than registration, holding a valid
\* token, runs its first statement while the token's subject has no User
\* row, it answers 404 and the store is unchanged.
C15_NoUserNotFound ==
    [][\A r \in Slots :
         (/\ Acted(r) /\ reqs[r].kind \in ProtectedKinds \ {"register"}
          /\ reqs[r].pc = FirstPc(reqs[r].kind)
          /\ RowsOf(reqs[r].user.firebaseUid).users = {})
            => /\ Answered(reqs'[r]) /\ reqs'[r].status = 404
               /\ store' = store]_vars

----------------------------------------------------------------------------
(* C16: a failed datastore operation *)

\* The messages of the errors pool.query rejects with.
StoreErrors ==
    {"store unavailable", "null value in column name", "users check violated",
     "duplicate key users_firebase_uid_key", "duplicate key users_email_key",
     "massage_sessions_level_check", "massage_sessions_duration_check",
     "massage_sessions_calories_burned_check", "valid_session_time",
     "massage_sessions_user_id_fkey", "preferences check violated",
     "duplicate key preferences_user_id_key", "preferences_user_id_fkey"}

\* C16: on every endpoint, a request one of whose datastore operations
\* failed (store unreachable or constraint violated) is answered 500, never
\* 401, 404 or success.
C16_StoreFailure500 ==
    \A r \in Slots :
        LET q == reqs[r] IN
        (Answered(q) /\ DOMAIN q.resp = {"error"} /\ q.resp.error \in StoreErrors)
            => q.status = 500

----------------------------------------------------------------------------
(* C17: the time order of a session *)

\* C17: every stored Session row has ended_at later than started_at (a POST
\* /sessions whose ended_at is not later than its started_at adds no row).
C17_SessionTimeOrdered == \A x \in massage_sessions : x.ended_at > x.started_at

----------------------------------------------------------------------------
(* C18: pagination of the session list *)

\* The value of a query parameter, d when it is not supplied.
SuppliedOr(x, d) == IF x = {} THEN d ELSE CHOOSE v \in x : TRUE

\* The page holds exactly min(limit, max(0, n - offset)) rows, and its i-th
\* row stands at position offset + i of the rows sorted by start time
\* descending.
IsPage(page, rows, limit, offset) ==
    LET n == Cardinality(rows)
        rest == IF n > offset THEN n - offset ELSE 0
    IN
    /\ Len(page) = (IF limit < rest THEN limit ELSE rest)
    /\ \A i \in 1..Len(page) :
          /\ \E x \in rows : x.session_id = page[i].session_id /\ x.started_at = page[i].startedAt
          /\ Cardinality({x \in rows : x.started_at > page[i].startedAt}) < offset + i
          /\ Cardinality({x \in rows : x.started_at >= page[i].startedAt}) >= offset + i
    /\ \A i, j \in 1..Len(page) : i # j => page[i].session_id # page[j].session_id

\* C18: when GET /sessions runs its query for a user with n sessions and
\* non-negative limit and offset (50 and 0 when not supplied), it answers
\* 200 with exactly min(limit, max(0, n - offset)) rows, those at positions
\* offset+1 .. offset+limit of the user's sessions sorted by start time
\* descending.
C18_Pagination ==
    [][\A r \in Slots :
         (reqs[r].pc = "getSessions.select" /\ Acted(r))
            => /\ Answered(reqs'[r]) /\ reqs'[r].status = 200
               /\ reqs'[r].resp.count = Len(reqs'[r].resp.sessions)
               /\ IsPage(reqs'[r].resp.sessions,
                         {x \in massage_sessions : x.user_id = reqs[r].userId},
                         SuppliedOr(reqs[r].query.limit, 50),
                         SuppliedOr(reqs[r].query.offset, 0))]_vars

----------------------------------------------------------------------------
(* C19: the profile update is a full overwrite *)

\* Row new is row old with name, age, weight and height replaced by the
\* body's values, absent ones included, and nothing else changed.
FullyOverwritten(old, new, b) ==
    /\ new.name = b.name /\ new.age = b.age
    /\ new.weight = b.weight /\ new.height = b.height
    /\ new.user_id = old.user_id /\ new.firebase_uid = old.firebase_uid
    /\ new.email = old.email /\ new.gender = old.gender

----------------------------------------------------------------------------
(* C20: referential integrity under interleaving *)

\* C20: in every reachable state, however account deletion interleaves with
\* session creation, preference read and preference update, every Session
\* row and every Preference row references a User row that exists, and no
\* User has more than one Preference row.
C20_ReferentialIntegrity ==
    /\ \A x \in massage_sessions : \E u \in users : u.user_id = x.user_id
    /\ \A p \in preferences : \E u \in users : u.user_id = p.user_id
    /\ \A p, n \in preferences : p.user_id = n.user_id => p = n

\* The store refused a row whose user had been deleted since the handler
\* looked it up.
C20_Witness ==
    \E r \in Slots :
        /\ Answered(reqs[r]) /\ reqs[r].status = 500
        /\ reqs[r].resp.error \in {"massage_sessions_user_id_fkey", "preferences_user_id_fkey"}

----------------------------------------------------------------------------
(* C12: preference reads are idempotent *)

\* A read that started after an earlier read of the subject was answered,
\* with no write to the subject's preferences in between or since, is
\* answered 200 with the values of the earlier read, and the subject has
\* one Preference row.
ReadsAgree ==
    \A r \in Slots :
        LET q == reqs[r] IN
        (Answered(q) /\ q.kind = "getPrefs" /\ q.seen # {}) =>
            /\ q.status = 200
            /\ q.resp.preferences \in q.seen
            /\ Cardinality(RowsOf(SubjectOf(q)).preferences) = 1

\* No step of such a read creates or changes a row.
LaterReadsWriteNothing ==
    \A r \in Slots :
        (Acted(r) /\ reqs[r].kind = "getPrefs" /\ reqs[r].seen # {}) => store' = store

\* C12: sequential GET /preferences calls of one user with no write to the
\* user's preferences in between return the same values, and after the
\* first call no further Preference row is created and no field changes.
C12_ReadsIdempotent == []ReadsAgree /\ [][LaterReadsWriteNothing]_vars

\* A second read was answered with the values of the first.
C12_Witness ==
    \E r \in Slots :
        /\ reqs[r].kind = "getPrefs" /\ Answered(reqs[r]) /\ reqs[r].status = 200
        /\ reqs[r].seen = {reqs[r].resp.preferences}

----------------------------------------------------------------------------
(* C21: concurrent first preference reads *)

\* C21: however the lookups and inserts of concurrent first GET /preferences
\* requests of one user interleave, none of them is answered with the
\* uniqueness violation of preferences.user_id.
C21_ConcurrentFirstReads ==
    \A r \in Slots :
        LET q == reqs[r] IN
        (Answered(q) /\ q.kind = "getPrefs" /\ DOMAIN q.resp = {"error"})
            => q.resp.error # "duplicate key preferences_user_id_key"

----------------------------------------------------------------------------
(* C22: a preference update is observable *)

\* The preferences j carry, for every field the body b supplies, the
\* supplied value.
CarriesSupplied(j, b) ==
    /\ b.favoriteLevel # {} => j.favoriteLevel = b.favoriteLevel
    /\ b.defaultDuration # {} => j.defaultDuration = b.defaultDuration
    /\ b.enableHeatByDefault # {} => j.enableHeatByDefault = b.enableHeatByDefault
    /\ b.enableNotifications # {} => j.enableNotifications = b.enableNotifications
    /\ b.notificationTime # {} => SameTimeOfDay(j.notificationTime, b.notificationTime)
    /\ b.theme # {} => j.theme = b.theme
    /\ b.language # {} => j.language = b.language

\* C22: a GET /preferences that starts after a PUT /preferences of the same
\* user answered success, with no other write to the user's preferences in
\* between, answers 200 with the supplied value for every field the PUT
\* supplied, whether or not the user had a Preference row at the PUT.
C22_UpdateObservable ==
    \A r \in Slots :
        LET q == reqs[r] IN
        (Answered(q) /\ q.kind = "getPrefs" /\ q.put # {}) =>
            /\ q.status = 200
            /\ \A b \in q.put : CarriesSupplied(q.resp.preferences, b)

----------------------------------------------------------------------------
(* C23: the outcome of a request and the rows of other subjects *)

\* The constraint error e, raised against a request of the subject whose
\* rows are `own` and whose token carries `email`, is one the store would
\* raise as well if it held the rows `own` and no row of another subject.
RaisedByOwnRows(e, own, email) ==
    /\ e = "duplicate key users_firebase_uid_key" => own.users # {}
    /\ e = "duplicate key users_email_key" => \E u \in own.users : u.email = email
    /\ e = "duplicate key preferences_user_id_key" => own.preferences # {}
    /\ e \in {"massage_sessions_user_id_fkey", "preferences_user_id_fkey"} => own.users = {}

\* C23: the outcome of a request authenticated as subject A is the same in
\* any two stores that agree on the rows of A: whenever a step of the
\* request is refused by a constraint of the store, the rows of A alone
\* raise that refusal, so the rows of other subjects do not change the
\* status, the body or the effect on the rows of A.
C23_OutcomeIndependentOfOthers ==
    [][\A r \in Slots :
         (/\ Acted(r) /\ Answered(reqs'[r]) /\ reqs[r].pc \in QueryPcs
          /\ DOMAIN reqs'[r].resp = {"error"})
            => RaisedByOwnRows(reqs'[r].resp.error, RowsOf(reqs[r].user.firebaseUid),
                               reqs[r].user.email)]_vars

----------------------------------------------------------------------------
(* C24: statistics of a user without sessions in the window *)

\* The sessions of a user that started within the last `days` days before
\* `now` (minutes).
InsideWindow(userId, now, days) ==
    {x \in massage_sessions : x.user_id = userId /\ now - x.started_at <= days * 1440}

\* C24: when GET /sessions/statistics runs its query for an existing user
\* it answers 200, and when the user has no session inside the window the
\* answer names, totalSessions, totalMinutes, totalCalories, avgLevel and
\* heatUsagePercent are all 0: the division by a session count of 0 does
\* not fail.
C24_StatisticsWithoutSessions ==
    [][\A r \in Slots :
         (reqs[r].pc = "getStatistics.select" /\ Acted(r))
            => /\ Answered(reqs'[r]) /\ reqs'[r].status = 200
               /\ LET st == reqs'[r].resp.statistics IN
                  InsideWindow(reqs[r].userId, reqs[r].now, st.dateRange) = {}
                    => /\ st.totalSessions = 0 /\ st.totalMinutes = 0
                       /\ st.totalCalories = 0 /\ st.avgLevel.num = 0
                       /\ st.heatUsagePercent = 0]_vars

\* Statistics were answered with zeros for a user whose sessions all lie
\* before the window.
C24_Witness ==
    \E r \in Slots :
        /\ reqs[r].kind = "getStatistics" /\ Answered(reqs[r]) /\ reqs[r].status = 200
        /\ reqs[r].resp.statistics.totalSessions = 0
        /\ reqs[r].resp.statistics.heatUsagePercent = 0
        /\ \E x \in massage_sessions : OwnerOfId(x.user_id) = SubjectOf(reqs[r])

====
